---- MODULE Spec2Model ----
(***************************************************************************)
(* Model of silent_print/utils/print_format.py: the receipt height         *)
(* estimator, the page option builder, the HTML option merger, the PDF     *)
(* renderer and the whitespace cropper.                                    *)
(*                                                                         *)
(* Python values are modelled as follows.  A str is a sequence of          *)
(* one-character strings.  None, True and False are one-token sequences    *)
(* that no str equals.  A dict is a function whose DOMAIN is its key set.  *)
(***************************************************************************)
EXTENDS Integers, Sequences, FiniteSets, TLC

VARIABLES
    pc,             \* "input" before the operation under study ran, "done" after
    doc,            \* the document handed to the estimator / option builder
    height,         \* calculate_receipt_height(doc)
    fmt,            \* the Silent Print Format configuration
    options,        \* the mapping returned by get_pdf_options
    opts,           \* the caller's options mapping (a dict object, mutated in place)
    html,           \* the directives read_options_from_html returns for the HTML
    sid,            \* frappe.session.sid
    arg,            \* the value opts had when the latest prepare_options call began
    ret,            \* the options the latest prepare_options call returned
    first,          \* the options the first prepare_options call returned
    runs,           \* number of prepare_options calls made with opts
    acc,            \* the caller-supplied PdfWriter accumulator of get_pdf
    engineOptions,  \* the options mapping handed to pdfkit.from_string
    render,         \* what the rendering step did in the latest get_pdf call
    result,         \* what get_pdf returned or raised
    pdf,            \* the pages of the PDF handed to crop_pdf_whitespace
    cropped         \* what crop_pdf_whitespace returned or raised

heightVars == <<doc, height>>
optionVars == <<fmt, options>>
mergeVars  == <<opts, html, sid, arg, ret, first, runs>>
pdfVars    == <<acc, engineOptions, render, result>>
cropVars   == <<pdf, cropped>>
vars == <<pc, doc, height, fmt, options, opts, html, sid, arg, ret, first, runs,
          acc, engineOptions, render, result, pdf, cropped>>

----------------------------------------------------------------------------
(* Python values *)

None    == <<"<None>">>
PyTrue  == <<"<True>">>
PyFalse == <<"<False>">>

\* bool(v) for the values used here: None, False and the empty str are falsy
Truthy(v) == v \notin {None, PyFalse, <<>>}

\* a or b
Or(a, b) == IF Truthy(a) THEN a ELSE b

\* u in s, for strs
Contains(s, u) ==
    \E i \in 1..(Len(s) - Len(u) + 1) : SubSeq(s, i, i + Len(u) - 1) = u

\* s.endswith(u)
EndsWith(s, u) ==
    /\ Len(s) >= Len(u)
    /\ SubSeq(s, Len(s) - Len(u) + 1, Len(s)) = u

DigitChar == <<"0", "1", "2", "3", "4", "5", "6", "7", "8", "9">>

\* str(n) / f"{n}" for a non-negative int
RECURSIVE IntToStr(_)
IntToStr(n) ==
    IF n < 10 THEN <<DigitChar[n + 1]>>
    ELSE IntToStr(n \div 10) \o <<DigitChar[(n % 10) + 1]>>

\* dicts
EmptyDict == [k \in {} |-> None]
Get(d, k, default) == IF k \in DOMAIN d THEN d[k] ELSE default
Update(d, e) ==
    [k \in (DOMAIN d) \cup (DOMAIN e) |-> IF k \in DOMAIN e THEN e[k] ELSE d[k]]
Remove(d, k) == [x \in (DOMAIN d) \ {k} |-> d[x]]

Max(a, b) == IF a >= b THEN a ELSE b
Min(a, b) == IF a <= b THEN a ELSE b

----------------------------------------------------------------------------
(* Height Estimator: calculate_receipt_height *)

header_height       == 10
customer_height     == 8
item_height         == 8
totals_height       == 20
payment_base_height == 10
payment_line_height == 5
footer_height       == 12
buffer_height       == 5
min_height          == 60
max_height          == 500

RECEIPT_HEIGHT_CONFIG ==
    [header_height       |-> header_height,
     customer_height     |-> customer_height,
     item_height         |-> item_height,
     totals_height       |-> totals_height,
     payment_base_height |-> payment_base_height,
     payment_line_height |-> payment_line_height,
     footer_height       |-> footer_height,
     buffer_height       |-> buffer_height,
     min_height          |-> min_height,
     max_height          |-> max_height]

(* A document.  present = FALSE is None.  keys is the set of fields the     *)
(* mapping carries; a mapping with no field at all is falsy in Python.      *)
(* items is kept as the number of lines without and with a truthy           *)
(* discount_percentage (the estimator reads only len() and that count);     *)
(* payments is len(doc["payments"]).                                        *)
NoDoc == [present |-> FALSE, keys |-> {}, plain |-> 0, discounted |-> 0, payments |-> 0]
EmptyMapping == [present |-> TRUE, keys |-> {}, plain |-> 0, discounted |-> 0, payments |-> 0]

\* bool(doc)
DocTruthy(d) == d.present /\ d.keys # {}

\* len(doc.get("items", [])) if doc else 0
ItemsCount(d) ==
    IF DocTruthy(d) /\ "items" \in d.keys THEN d.plain + d.discounted ELSE 0

\* sum(1 for item in (doc.get("items", []) if doc else []) if item.get("discount_percentage"))
ItemsWithDiscount(d) ==
    IF DocTruthy(d) /\ "items" \in d.keys THEN d.discounted ELSE 0

\* len(doc.get("payments", [])) if doc else 0
PaymentsCount(d) ==
    IF DocTruthy(d) /\ "payments" \in d.keys THEN d.payments ELSE 0

\* mutant: the payment header is added even when there are no payments
PaymentSection_NoGuard(config, payments_count) ==
    config.payment_base_height + (payments_count * config.payment_line_height)

\* the payment section, added only when payments exist
PaymentSection(config, payments_count) ==
    IF payments_count > 0
    THEN config.payment_base_height + (payments_count * config.payment_line_height)
    ELSE 0

\* the clamp to [min_height, max_height]
Clamp(config, h) == Max(config.min_height, Min(h, config.max_height))

calculate_receipt_height(d) ==
    LET config == RECEIPT_HEIGHT_CONFIG
        h0 == config.header_height + config.customer_height
        h1 == h0 + (ItemsCount(d) * config.item_height) + (ItemsWithDiscount(d) * 2)
        h2 == h1 + config.totals_height
        h3 == h2 + PaymentSection(config, PaymentsCount(d))
        h4 == h3 + config.footer_height
        h5 == h4 + config.buffer_height
    IN  Clamp(config, h5)

----------------------------------------------------------------------------
(* Page Option Builder: get_pdf_options *)

A4     == <<"A", "4">>
Custom == <<"C", "u", "s", "t", "o", "m">>
Mm     == <<"m", "m">>
Mm0    == <<"0", "m", "m">>
Mm15   == <<"1", "5", "m", "m">>
Mm80   == <<"8", "0", "m", "m">>
Mm297  == <<"2", "9", "7", "m", "m">>
Dpi203 == <<"2", "0", "3">>
Zoom1  == <<"1">>
Utf8   == <<"U", "T", "F", "-", "8">>

\* ["mm", "cm", "in", "px"]
Units == {<<"m", "m">>, <<"c", "m">>, <<"i", "n">>, <<"p", "x">>}

\* mutant: only "mm" is looked for
HasUnit_MmOnly(value) == Contains(value, <<"m", "m">>)

\* any(u in str(value) for u in ["mm", "cm", "in", "px"])
HasUnit(value) == \E u \in Units : Contains(value, u)

\* if value and not any(...): value = f"{value}mm"
EnsureUnit(value) ==
    IF Truthy(value) /\ ~HasUnit(value) THEN value \o Mm ELSE value

\* silent_print_format.get("auto_height") and doc
UseAutoHeight(f, d) == f.auto_height /\ DocTruthy(d)

\* the height before units are ensured
ResolveHeight(f, d) ==
    IF UseAutoHeight(f, d)
    THEN IntToStr(calculate_receipt_height(d)) \o Mm
    ELSE Or(f.custom_height, Mm297)

get_pdf_options(f, d) ==
    IF f.page_size = Custom
    THEN LET custom_width  == EnsureUnit(Or(f.custom_width, Mm80))
             custom_height == EnsureUnit(ResolveHeight(f, d))
         IN  [k \in {"page-width", "page-height", "margin-top", "margin-bottom",
                     "margin-left", "margin-right", "dpi", "zoom",
                     "no-pdf-compression", "_is_thermal"} |->
                 CASE k = "page-width"         -> custom_width
                   [] k = "page-height"        -> custom_height
                   [] k = "dpi"                -> Dpi203
                   [] k = "zoom"               -> Zoom1
                   [] k = "no-pdf-compression" -> <<>>
                   [] k = "_is_thermal"        -> PyTrue
                   [] OTHER                    -> Mm0]
    ELSE [k \in {"page-size"} |-> Or(f.page_size, A4)]

----------------------------------------------------------------------------
(* HTML Option Reader & Merger: prepare_options *)

UpperCase == <<"A", "B", "C", "D", "E", "F", "G", "H", "I", "J", "K", "L", "M",
               "N", "O", "P", "Q", "R", "S", "T", "U", "V", "W", "X", "Y", "Z">>
LowerCase == <<"a", "b", "c", "d", "e", "f", "g", "h", "i", "j", "k", "l", "m",
               "n", "o", "p", "q", "r", "s", "t", "u", "v", "w", "x", "y", "z">>

LowerChar(c) ==
    IF \E i \in 1..26 : UpperCase[i] = c
    THEN LowerCase[CHOOSE i \in 1..26 : UpperCase[i] = c]
    ELSE c

\* s.lower()
Lower(s) == [i \in 1..Len(s) |-> LowerChar(s[i])]

\* the characters of an option key (keys are kept as atomic strings)
Spell(key) ==
    CASE key = "margin-top"  -> <<"m","a","r","g","i","n","-","t","o","p">>
      [] key = "page-width"  -> <<"p","a","g","e","-","w","i","d","t","h">>
      [] key = "Page-Height" -> <<"P","a","g","e","-","H","e","i","g","h","t">>
      [] key = "page-size"   -> <<"p","a","g","e","-","s","i","z","e">>
      [] key = "orientation" -> <<"o","r","i","e","n","t","a","t","i","o","n">>

Margin == <<"m", "a", "r", "g", "i", "n">>
Page   == <<"p", "a", "g", "e">>

\* mutant: only margin directives are held back
ThermalKeeps_MarginOnly(key) == ~Contains(Lower(Spell(key)), Margin)

\* "margin" not in key.lower() and "page" not in key.lower()
ThermalKeeps(key) ==
    /\ ~Contains(Lower(Spell(key)), Margin)
    /\ ~Contains(Lower(Spell(key)), Page)

\* is_thermal = options.pop("_is_thermal", False), used as a condition
IsThermal(o) == Truthy(Get(o, "_is_thermal", PyFalse))

\* mutant: the marker is read with get() and stays in the mapping
PopMarker_Get(o) == o

\* what options.pop("_is_thermal", False) leaves in the mapping
PopMarker(o) == Remove(o, "_is_thermal")

\* the settings stored before they can be overwritten
ThermalSettings(o) ==
    [k \in {"margin-top", "margin-bottom", "margin-left", "margin-right",
            "page-width", "page-height", "dpi", "zoom"} |->
        IF k \in {"margin-top", "margin-bottom", "margin-left", "margin-right"}
        THEN Get(o, k, Mm0)
        ELSE Get(o, k, None)]

\* the options injected whatever the input holds
Injected ==
    [k \in {"print-media-type", "background", "images", "quiet", "encoding"} |->
        IF k = "encoding" THEN Utf8 ELSE None]

\* mutant: a side is defaulted only when its key is missing
DefaultMargins_MissingOnly(o) ==
    Update(o, [k \in {"margin-right", "margin-left", "margin-top", "margin-bottom"}
                        \ DOMAIN o |-> Mm15])

\* if not options.get(key): options[key] = "15mm", for the four sides
DefaultMargins(o) ==
    LET unset == {k \in {"margin-right", "margin-left", "margin-top", "margin-bottom"} :
                     ~Truthy(Get(o, k, None))}
    IN  Update(o, [k \in unset |-> Mm15])

\* the merge of the directives read from the HTML
MergeHtml(o, h, is_thermal) ==
    IF DOMAIN h = {} THEN o
    ELSE IF is_thermal
         THEN Update(o, [k \in {x \in DOMAIN h : ThermalKeeps(x)} |-> h[k]])
         ELSE Update(o, h)

\* options["cookie"] = [("sid", "{0}".format(frappe.session.sid))]
Cookie(o, s) ==
    IF Truthy(s) THEN Update(o, [k \in {"cookie"} |-> <<"sid">> \o s]) ELSE o

\* the options prepare_options returns for the directives h of the HTML,
\* the mapping o it is called with, and the session id s
prepare_options(h, o, s) ==
    LET is_thermal       == IsThermal(o)
        popped           == PopMarker(o)
        thermal_settings == IF is_thermal THEN ThermalSettings(popped) ELSE EmptyDict
        injected         == Update(popped, Injected)
        margined         == IF ~is_thermal THEN DefaultMargins(injected) ELSE injected
        merged           == MergeHtml(margined, h, is_thermal)
        restored         == IF is_thermal THEN Update(merged, thermal_settings) ELSE merged
    IN  Cookie(restored, s)

\* The caller's dict after the call.  `if not options: options = {}` binds a
\* fresh dict, so an empty mapping is left alone; any other mapping is the
\* object the function pops from, updates and returns.
CallerAfter(h, o, s) == IF DOMAIN o = {} THEN o ELSE prepare_options(h, o, s)

----------------------------------------------------------------------------
(* PDF Renderer: get_pdf *)

\* An exception message is a sequence of fragments; `error in str(e)` is the
\* search for the one-fragment sequence <<error>>.
PDF_CONTENT_ERRORS ==
    {"ContentNotFoundError", "ContentOperationNotPermittedError",
     "UnknownContentError", "RemoteHostClosedError"}

\* any([error in str(e) for error in PDF_CONTENT_ERRORS])
IsContentError(message) == \E error \in PDF_CONTENT_ERRORS : Contains(message, <<error>>)

\* LooseVersion(a) > LooseVersion(b), for versions of three numeric components
VersionGreater(a, b) ==
    \/ a[1] > b[1]
    \/ a[1] = b[1] /\ a[2] > b[2]
    \/ a[1] = b[1] /\ a[2] = b[2] /\ a[3] > b[3]

\* the options after the security and version updates, before the engine runs
EngineOptions(prepared, version) ==
    LET secured == Update(prepared, [k \in {"disable-javascript", "disable-local-file-access"} |-> <<>>])
    IN  IF VersionGreater(version, <<0, 12, 3>>)
        THEN Update(secured, [k \in {"disable-smart-shrinking"} |-> <<>>])
        ELSE secured

Raised(error, output) ==
    [status |-> "raised", error |-> error, kind |-> "none", pages |-> <<>>,
     encrypted |-> FALSE, output |-> output]

Returned(kind, pages, encrypted, output) ==
    [status |-> "returned", error |-> "", kind |-> kind, pages |-> pages,
     encrypted |-> encrypted, output |-> output]

(* The statements after the try block, lines 248-267.  reader_bound says    *)
(* whether the name `reader` was assigned; reading an unassigned local      *)
(* raises UnboundLocalError.  output is the accumulator as it stands.       *)
Assemble(eo, output, reader_bound, reader_pages) ==
    IF ~reader_bound THEN Raised("UnboundLocalError", output)
    ELSE IF output.given
         THEN LET filled == [output EXCEPT !.pages = @ \o reader_pages]
              IN  Returned("writer", filled.pages, FALSE, filled)
         ELSE Returned("bytes", reader_pages, "password" \in DOMAIN eo, output)

(* The except clause, lines 236-246.  filedata_set says whether the         *)
(* assignment from pdfkit.from_string completed; filedata is "" before.     *)
OnOSError(eo, output, e, filedata_set, filedata_empty) ==
    IF IsContentError(e.message)
    THEN IF ~filedata_set \/ filedata_empty
         THEN Raised("ValidationError", output)
         ELSE IF output.given
              THEN Raised("UnboundLocalError", output)  \* reader.pages in the handler
              ELSE Assemble(eo, output, FALSE, <<>>)
    ELSE Raised("OSError", output)

(* get_pdf from the options handed to the engine on.  e describes the       *)
(* rendering step: the pages the engine put into its bytes, the call that   *)
(* raised ("none", "from_string" or "PdfReader") and the message.           *)
RenderAndAssemble(eo, output, e) ==
    CASE e.raised_by = "none" ->
            Assemble(eo, output, TRUE, e.pages)
      [] e.raised_by = "from_string" ->
            \* the exception leaves the assignment to filedata undone
            OnOSError(eo, output, e, FALSE, TRUE)
      [] e.raised_by = "PdfReader" ->
            \* filedata holds the bytes, reader was never assigned
            OnOSError(eo, output, e, TRUE, FALSE)

\* the options get_pdf hands to pdfkit.from_string
get_pdf_engine_options(h, o, s, version) == EngineOptions(prepare_options(h, o, s), version)

\* get_pdf(html, options, output): the options the engine was given, and
\* what the call returned or raised
get_pdf(h, o, s, output, e) ==
    LET eo == get_pdf_engine_options(h, o, s, e.version)
    IN  [engine_options |-> eo, outcome |-> RenderAndAssemble(eo, output, e)]

----------------------------------------------------------------------------
(* Whitespace Cropper: crop_pdf_whitespace *)

CropBuffer    == 15
CropThreshold == 20

(* A page: rect = [x0, y0, x1, y1], blocks, cropbox (the rect until         *)
(* rewritten).  A block: bbox is the bottom of its bounding box, or -1 when *)
(* the block has no "bbox"; has_lines says whether it has "lines"; lines    *)
(* holds the bottom of each line's bbox, -1 for a line without one.         *)

RECURSIVE LinesMaxY(_, _)
LinesMaxY(lines, max_y) ==
    IF lines = <<>> THEN max_y
    ELSE LinesMaxY(Tail(lines),
                   IF Head(lines) # -1 THEN Max(max_y, Head(lines)) ELSE max_y)

\* one iteration of `for block in blocks`
BlockMaxY(block, max_y) ==
    IF block.bbox # -1 THEN Max(max_y, block.bbox)
    ELSE IF block.has_lines THEN LinesMaxY(block.lines, max_y)
    ELSE max_y

RECURSIVE BlocksMaxY(_, _)
BlocksMaxY(blocks, max_y) ==
    IF blocks = <<>> THEN max_y
    ELSE BlocksMaxY(Tail(blocks), BlockMaxY(Head(blocks), max_y))

\* rect.height
RectHeight(rect) == rect.y1 - rect.y0

\* mutant: the threshold is compared with >= instead of >
WillCrop_AtLeast(page) ==
    /\ page.blocks # <<>>
    /\ LET max_y == BlocksMaxY(page.blocks, 0)
       IN  /\ max_y > 0
           /\ RectHeight(page.rect) - (max_y + CropBuffer) >= CropThreshold

\* whether the loop body reaches page.set_cropbox
WillCrop(page) ==
    /\ page.blocks # <<>>
    /\ LET max_y == BlocksMaxY(page.blocks, 0)
       IN  /\ max_y > 0
           /\ RectHeight(page.rect) - (max_y + CropBuffer) > CropThreshold

\* the loop body for one page
CropPage(page) ==
    IF WillCrop(page)
    THEN [page EXCEPT !.cropbox =
             [x0 |-> page.rect.x0, y0 |-> page.rect.y0, x1 |-> page.rect.x1,
              y1 |-> BlocksMaxY(page.blocks, 0) + CropBuffer]]
    ELSE page

(* Whether the try block raises, given where the environment fails:         *)
(* fail.at names the call ("none", "import", "open", "get_text",            *)
(* "set_cropbox", "tobytes", "close") and fail.page the page whose          *)
(* get_text or set_cropbox call fails.  A set_cropbox failure is met only   *)
(* if every earlier page passed and that page is cropped.                   *)
CropRaises(pages, fail) ==
    \/ fail.at \in {"import", "open", "tobytes", "close"}
    \/ fail.at = "get_text" /\ fail.page \in 1..Len(pages)
    \/ fail.at = "set_cropbox" /\ fail.page \in 1..Len(pages) /\ WillCrop(pages[fail.page])

\* mutant: the handler serializes the partly cropped document
OnCropFailure_Partial(pdf_bytes, partial) == [raised |-> FALSE, pages |-> partial]

\* the except clauses: log, then return the original bytes, whatever was done
\* to pdf_doc; nothing is raised again
OnCropFailure(pdf_bytes, partial) == [raised |-> FALSE, pages |-> pdf_bytes]

\* pdf_doc after the loop ran over the first n pages
CroppedUpTo(pages, n) ==
    [i \in 1..Len(pages) |-> IF i <= n THEN CropPage(pages[i]) ELSE pages[i]]

\* how far the loop got when the failure struck
PagesDone(pages, fail) ==
    CASE fail.at \in {"import", "open"}          -> 0
      [] fail.at \in {"get_text", "set_cropbox"} -> fail.page - 1
      [] OTHER                                   -> Len(pages)

(* crop_pdf_whitespace(pdf_bytes).  failed says whether the try block       *)
(* raised and done how many pages the loop had finished by then; pages is   *)
(* the content of the bytes returned.                                       *)
crop_pdf_whitespace(pages, fail) ==
    IF CropRaises(pages, fail)
    THEN LET out == OnCropFailure(pages, CroppedUpTo(pages, PagesDone(pages, fail)))
         IN  [raised |-> out.raised,
              pages  |-> out.pages,
              failed |-> TRUE,
              done   |-> PagesDone(pages, fail),
              logged |-> IF fail.at = "import" THEN "PyMuPDF (fitz) not installed"
                                               ELSE "PDF cropping failed"]
    ELSE [raised |-> FALSE,
          pages  |-> CroppedUpTo(pages, Len(pages)),
          failed |-> FALSE,
          done   |-> Len(pages),
          logged |-> ""]

----------------------------------------------------------------------------
(* Bounds and input sets *)

MaxItems    == 60   \* lines of a document
MaxPayments == 3    \* payments of a document
MaxChars    == 4    \* characters of custom_width and custom_height together
MaxRuns     == 2    \* prepare_options calls with one mapping
MaxPages    == 2    \* pages the engine renders
MaxAccPages == 1    \* pages already in a caller-supplied accumulator
MaxPdfPages == 2    \* pages of a PDF to crop
MaxBlocks   == 2    \* content blocks of a PDF to crop, over all its pages
MaxGrid     == 3    \* content bottoms lie on 0, 5, ..., 5 * MaxGrid points
PageHeight  == 50   \* height of the pages to crop, in points

\* values left in the variables a specification does not use
NoFormat == [page_size |-> None, custom_width |-> None, custom_height |-> None,
             auto_height |-> FALSE]
NoAcc    == [given |-> FALSE, pages |-> <<>>]
NoRender == [version |-> <<0, 0, 0>>, pages |-> <<>>, raised_by |-> "none", message |-> <<>>,
             before |-> NoAcc]
NoResult == [status |-> "none", error |-> "", kind |-> "none", pages |-> <<>>,
             encrypted |-> FALSE, output |-> NoAcc]
NoCrop   == [raised |-> FALSE, pages |-> <<>>, failed |-> FALSE, done |-> 0, logged |-> ""]

IdleHeight == doc = NoDoc /\ height = 0
IdleOption == fmt = NoFormat /\ options = EmptyDict
IdleMerge  == /\ opts = EmptyDict /\ html = EmptyDict /\ sid = None
              /\ arg = EmptyDict /\ ret = EmptyDict /\ first = EmptyDict /\ runs = 0
IdlePdf    == /\ acc = NoAcc /\ engineOptions = EmptyDict
              /\ render = NoRender /\ result = NoResult
IdleCrop   == pdf = <<>> /\ cropped = NoCrop

----------------------------------------------------------------------------
(* Specification of the Height Estimator: a document grows line by line    *)
(* and payment by payment, and is estimated after each change.             *)

StartDocs ==
    {NoDoc} \cup
    {[present |-> TRUE, keys |-> ks, plain |-> 0, discounted |-> 0, payments |-> 0] :
        ks \in SUBSET {"items", "payments", "name"}}

InitHeight ==
    /\ pc = "done"
    /\ doc \in StartDocs
    /\ height = calculate_receipt_height(doc)
    /\ IdleOption /\ IdleMerge /\ IdlePdf /\ IdleCrop

Estimated(d) ==
    /\ doc' = d
    /\ height' = calculate_receipt_height(d)
    /\ UNCHANGED <<pc, optionVars, mergeVars, pdfVars, cropVars>>

AddPlainItem ==
    /\ doc.present
    /\ doc.plain + doc.discounted < MaxItems
    /\ Estimated([doc EXCEPT !.keys = @ \cup {"items"}, !.plain = @ + 1])

AddDiscountedItem ==
    /\ doc.present
    /\ doc.plain + doc.discounted < MaxItems
    /\ Estimated([doc EXCEPT !.keys = @ \cup {"items"}, !.discounted = @ + 1])

AddPayment ==
    /\ doc.present
    /\ doc.payments < MaxPayments
    /\ Estimated([doc EXCEPT !.keys = @ \cup {"payments"}, !.payments = @ + 1])

NextHeight == AddPlainItem \/ AddDiscountedItem \/ AddPayment

SpecHeight == InitHeight /\ [][NextHeight]_vars

----------------------------------------------------------------------------
(* Specification of the Page Option Builder *)

Alphabet == {"7", "m", "i", "n"}

StrsUpTo(n) == UNION {[1..k -> Alphabet] : k \in 0..n}

\* a configured value: unset, or a str
ConfigValues(n) == {None} \cup StrsUpTo(n)

Chars(v) == IF v = None THEN 0 ELSE Len(v)

WidthHeightPairs ==
    UNION {{<<w, h>> : h \in ConfigValues(MaxChars - Chars(w))} : w \in ConfigValues(MaxChars)}

Formats ==
    {[page_size |-> ps, custom_width |-> wh[1], custom_height |-> wh[2], auto_height |-> ah] :
        ps \in {None, A4, Custom}, wh \in WidthHeightPairs, ah \in BOOLEAN}

OptionDocs ==
    {NoDoc, EmptyMapping,
     [present |-> TRUE, keys |-> {"items", "payments"}, plain |-> 0, discounted |-> 0, payments |-> 0],
     [present |-> TRUE, keys |-> {"items", "payments"}, plain |-> 5, discounted |-> 0, payments |-> 1]}

InitOptions ==
    /\ pc = "input"
    /\ fmt \in Formats
    /\ doc \in OptionDocs
    /\ height = 0
    /\ options = EmptyDict
    /\ IdleMerge /\ IdlePdf /\ IdleCrop

GetPdfOptions ==
    /\ pc = "input"
    /\ options' = get_pdf_options(fmt, doc)
    /\ pc' = "done"
    /\ UNCHANGED <<doc, height, fmt, mergeVars, pdfVars, cropVars>>

NextOptions == GetPdfOptions

SpecOptions == InitOptions /\ [][NextOptions]_vars

----------------------------------------------------------------------------
(* Specification of the HTML Option Reader & Merger: prepare_options is    *)
(* called up to MaxRuns times with the same HTML and the same dict object. *)

Absent  == <<"<absent>">>
Mm5     == <<"5", "m", "m">>
Latin1  == <<"l", "a", "t", "i", "n", "-", "1">>
Secret  == <<"p", "w">>
HtmlValue == <<"9", "9">>

\* a dict from the choice made for each key: Absent, or the key's value
DictOf(choice) == [k \in {x \in DOMAIN choice : choice[x] # Absent} |-> choice[k]]

PartialOptions ==
    {DictOf([k \in {"_is_thermal", "margin-top", "margin-left", "page-width",
                    "dpi", "encoding", "password"} |->
                CASE k = "_is_thermal" -> th
                  [] k = "margin-top"  -> mt
                  [] k = "margin-left" -> ml
                  [] k = "page-width"  -> pw
                  [] k = "dpi"         -> dp
                  [] k = "encoding"    -> en
                  [] k = "password"    -> pa]) :
        th \in {Absent, PyTrue, PyFalse}, mt \in {Absent, Mm0, <<>>},
        ml \in {Absent, Mm5}, pw \in {Absent, Mm80}, dp \in {Absent, Dpi203},
        en \in {Absent, Latin1}, pa \in {Absent, Secret}}

\* the mappings create_pdf passes on: the Page Option Builder's outputs
BuilderOptions ==
    {get_pdf_options([NoFormat EXCEPT !.page_size = ps], NoDoc) : ps \in {A4, Custom}}

CallerOptions == PartialOptions \cup BuilderOptions

\* directives the reader may return
HtmlKeys == {"margin-top", "page-width", "page-size", "orientation", "Page-Height"}
HtmlOptions == {[k \in ks |-> HtmlValue] : ks \in SUBSET HtmlKeys}

Sids == {None, <<"s", "1">>}

InitMerge ==
    /\ pc = "input"
    /\ opts \in CallerOptions
    /\ html \in HtmlOptions
    /\ sid \in Sids
    /\ arg = EmptyDict /\ ret = EmptyDict /\ first = EmptyDict /\ runs = 0
    /\ IdleHeight /\ IdleOption /\ IdlePdf /\ IdleCrop

PrepareOptions ==
    /\ runs < MaxRuns
    /\ arg' = opts
    /\ ret' = prepare_options(html, opts, sid)
    /\ opts' = CallerAfter(html, opts, sid)
    /\ first' = IF runs = 0 THEN ret' ELSE first
    /\ runs' = runs + 1
    /\ pc' = "done"
    /\ UNCHANGED <<html, sid, heightVars, optionVars, pdfVars, cropVars>>

NextMerge == PrepareOptions

SpecMerge == InitMerge /\ [][NextMerge]_vars

----------------------------------------------------------------------------
(* Specification of the PDF Renderer: one get_pdf call *)

PdfCallerOptions ==
    BuilderOptions \cup
    {DictOf([k \in {"_is_thermal", "password"} |-> IF k = "_is_thermal" THEN th ELSE pa]) :
        th \in {Absent, PyTrue, PyFalse}, pa \in {Absent, Secret}}

\* a page is a number: the engine's pages are 1, 2, ...; 0 is a page that
\* was in the accumulator before the call
EnginePages(n) == [i \in 1..n |-> i]

Accumulators ==
    {NoAcc} \cup {[given |-> TRUE, pages |-> [i \in 1..n |-> 0]] : n \in 0..MaxAccPages}

Versions == {<<0, 9, 9>>, <<0, 12, 3>>, <<0, 12, 6>>}

Messages ==
    {<<"wkhtmltopdf reported an error: ", "ContentNotFoundError">>,
     <<"Exit with code 1 due to network error: ", "RemoteHostClosedError", "\n">>,
     <<"No wkhtmltopdf executable found">>}

Renders ==
    {[version |-> v, pages |-> EnginePages(n), raised_by |-> "none", message |-> <<>>] :
        v \in Versions, n \in 0..MaxPages}
    \cup
    {[version |-> v, pages |-> EnginePages(n), raised_by |-> by, message |-> m] :
        v \in Versions, n \in 0..MaxPages, by \in {"from_string", "PdfReader"}, m \in Messages}

InitPdf ==
    /\ pc = "input"
    /\ opts \in PdfCallerOptions
    /\ html \in HtmlOptions
    /\ sid \in Sids
    /\ acc \in Accumulators
    /\ arg = EmptyDict /\ ret = EmptyDict /\ first = EmptyDict /\ runs = 0
    /\ engineOptions = EmptyDict /\ render = NoRender /\ result = NoResult
    /\ IdleHeight /\ IdleOption /\ IdleCrop

GetPdf ==
    /\ pc = "input"
    /\ \E e \in Renders :
        \E call \in {get_pdf(html, opts, sid, acc, e)} :
            /\ engineOptions' = call.engine_options
               \* the updates of lines 224 and 228 are made to the caller's dict too
            /\ opts' = IF DOMAIN opts = {} THEN opts ELSE call.engine_options
            /\ render' = [version |-> e.version, pages |-> e.pages, raised_by |-> e.raised_by,
                          message |-> e.message, before |-> acc]
            /\ result' = call.outcome
            /\ acc' = call.outcome.output
    /\ arg' = opts
    /\ runs' = 1
    /\ pc' = "done"
    /\ UNCHANGED <<html, sid, ret, first, heightVars, optionVars, cropVars>>

NextPdf == GetPdf

SpecPdf == InitPdf /\ [][NextPdf]_vars

----------------------------------------------------------------------------
(* Specification of the Whitespace Cropper: a PDF is put together page by  *)
(* page and block by block, then crop_pdf_whitespace is called on it once. *)

Coords == {5 * i : i \in 0..MaxGrid}

Blocks ==
    {[bbox |-> y, has_lines |-> FALSE, lines |-> <<>>] : y \in Coords \cup {-1}}
    \cup {[bbox |-> -1, has_lines |-> TRUE, lines |-> ls] :
            ls \in {<<-1>>} \cup {<<y>> : y \in Coords}}

PageRect == [x0 |-> 0, y0 |-> 0, x1 |-> 200, y1 |-> PageHeight]

PageOf(blocks) == [rect |-> PageRect, blocks |-> blocks, cropbox |-> PageRect]

RECURSIVE BlockTotal(_)
BlockTotal(pages) ==
    IF pages = <<>> THEN 0 ELSE Len(Head(pages).blocks) + BlockTotal(Tail(pages))

Fails ==
    {[at |-> a, page |-> 0] : a \in {"none", "import", "open", "tobytes", "close"}}
    \cup {[at |-> a, page |-> i] : a \in {"get_text", "set_cropbox"}, i \in 1..MaxPdfPages}

InitCrop ==
    /\ pc = "input"
    /\ pdf = <<PageOf(<<>>)>>
    /\ cropped = NoCrop
    /\ IdleHeight /\ IdleOption /\ IdleMerge /\ IdlePdf

\* the rendered PDF gets one more page
AddPage ==
    /\ pc = "input"
    /\ Len(pdf) < MaxPdfPages
    /\ pdf' = Append(pdf, PageOf(<<>>))
    /\ UNCHANGED <<pc, cropped, heightVars, optionVars, mergeVars, pdfVars>>

\* the last page of the rendered PDF gets one more content block
AddBlock ==
    /\ pc = "input"
    /\ BlockTotal(pdf) < MaxBlocks
    /\ \E b \in Blocks :
          pdf' = [pdf EXCEPT ![Len(pdf)] = PageOf(Append(@.blocks, b))]
    /\ UNCHANGED <<pc, cropped, heightVars, optionVars, mergeVars, pdfVars>>

CropPdfWhitespace ==
    /\ pc = "input"
    /\ \E fail \in Fails : cropped' = crop_pdf_whitespace(pdf, fail)
    /\ pc' = "done"
    /\ UNCHANGED <<pdf, heightVars, optionVars, mergeVars, pdfVars>>

NextCrop == AddPage \/ AddBlock \/ CropPdfWhitespace

SpecCrop == InitCrop /\ [][NextCrop]_vars

----------------------------------------------------------------------------
(* Properties *)

ItemsOf(d) == IF d.present THEN d.plain + d.discounted ELSE 0

\* the closed form of the estimate
ExpectedHeight(d) ==
    LET items    == ItemsOf(d)
        payments == IF d.present THEN d.payments ELSE 0
        raw == 10 + 8 + 8 * items + 2 * (IF d.present THEN d.discounted ELSE 0) + 20
               + (IF payments > 0 THEN 10 + 5 * payments ELSE 0) + 12 + 5
    IN  IF raw < 60 THEN 60 ELSE IF raw > 500 THEN 500 ELSE raw

\* C6: for every document, absent ones included, the estimate is
\* 10 + 8 + 8*items + 2*discounted + 20 + (10 + 5*payments if payments > 0) + 12 + 5
\* clamped to [60, 500]; it is 60 for no items and no payments, never above
\* 500, and a step that adds an item and keeps the payments never lowers it.
C6_HeightFormula ==
    /\ [](/\ height = ExpectedHeight(doc)
          /\ height <= 500
          /\ (ItemsOf(doc) = 0 /\ doc.payments = 0 => height = 60))
    /\ [][(ItemsOf(doc') > ItemsOf(doc) /\ doc'.payments = doc.payments)
              => height' >= height]_vars

\* a document whose estimate is clamped from above, with discounts and payments
C6_Witness ==
    /\ height = 500
    /\ doc.discounted > 0 /\ doc.payments > 0
    /\ 10 + 8 + 8 * ItemsOf(doc) + 2 * doc.discounted + 20 + 10 + 5 * doc.payments + 12 + 5 > 500

UnitStrs == {<<"m", "m">>, <<"c", "m">>, <<"i", "n">>, <<"p", "x">>}

\* the width and height strings units are ensured on, for a Custom format
ConfiguredWidth  == Or(fmt.custom_width, Mm80)
ConfiguredHeight == Or(fmt.custom_height, Mm297)
HeightIsConfigured == ~(fmt.auto_height /\ DocTruthy(doc))

\* C7 as stated: a width or height string is left unchanged exactly when it
\* ends with one of mm, cm, in, px, and has "mm" appended otherwise.
C7_EndsWithUnit ==
    (pc = "done" /\ fmt.page_size = Custom) =>
        /\ options["page-width"] =
              IF \E u \in UnitStrs : EndsWith(ConfiguredWidth, u)
              THEN ConfiguredWidth ELSE ConfiguredWidth \o <<"m", "m">>
        /\ HeightIsConfigured =>
              options["page-height"] =
                 IF \E u \in UnitStrs : EndsWith(ConfiguredHeight, u)
                 THEN ConfiguredHeight ELSE ConfiguredHeight \o <<"m", "m">>

\* C7 amended: a width or height string is left unchanged exactly when one of
\* mm, cm, in, px occurs anywhere in it, and has "mm" appended otherwise.
C7_ContainsUnit ==
    (pc = "done" /\ fmt.page_size = Custom) =>
        /\ options["page-width"] =
              IF \E u \in UnitStrs : Contains(ConfiguredWidth, u)
              THEN ConfiguredWidth ELSE ConfiguredWidth \o <<"m", "m">>
        /\ HeightIsConfigured =>
              options["page-height"] =
                 IF \E u \in UnitStrs : Contains(ConfiguredHeight, u)
                 THEN ConfiguredHeight ELSE ConfiguredHeight \o <<"m", "m">>

\* a configured width with a unit inside but not at its end, left unchanged,
\* beside a configured height without unit, which got "mm"
C7_Witness ==
    /\ pc = "done" /\ fmt.page_size = Custom
    /\ fmt.custom_width = <<"i", "n", "7">>
    /\ options["page-width"] = <<"i", "n", "7">>
    /\ HeightIsConfigured
    /\ fmt.custom_height = <<"7">>
    /\ options["page-height"] = <<"7", "m", "m">>

\* C10: for a Custom format, whenever auto_height is set and a document is
\* supplied (any mapping), page-height is "<N>mm" with N the estimate of the
\* document; otherwise the configured height (or "297mm") is used.
C10_AutoHeight ==
    (pc = "done" /\ fmt.page_size = Custom) =>
        IF fmt.auto_height /\ doc.present
        THEN options["page-height"] = IntToStr(ExpectedHeight(doc)) \o <<"m", "m">>
        ELSE options["page-height"] \in {ConfiguredHeight, ConfiguredHeight \o <<"m", "m">>}

MarginKeys   == {"margin-top", "margin-bottom", "margin-left", "margin-right"}
ProtectedKeys == MarginKeys \cup {"page-width", "page-height", "dpi", "zoom"}

\* the keys of the model whose name contains "margin" or "page" in any letter case
GeometryKeys == MarginKeys \cup {"page-width", "page-height", "page-size", "Page-Height"}

\* the latest call was made with a mapping carrying a true thermal marker
ThermalCall ==
    /\ runs >= 1
    /\ "_is_thermal" \in DOMAIN arg
    /\ arg["_is_thermal"] = PyTrue

\* no margin or page key of the returned options holds a value from the HTML
\* (the HTML's values differ from every value a caller or a default supplies)
NoGeometryFromHtml ==
    \A k \in GeometryKeys \cap DOMAIN ret : ret[k] # HtmlValue

\* C1 as stated: for every thermal-marked mapping the returned options hold,
\* for each of the eight protected keys, the value the mapping had before the
\* merge, and no margin or page key holds an HTML-supplied value.
C1_KeepsCallerValue ==
    ThermalCall =>
        /\ \A k \in ProtectedKeys : Get(ret, k, Absent) = Get(arg, k, Absent)
        /\ NoGeometryFromHtml

\* C1 amended: for every thermal-marked mapping the returned options hold, for
\* each of the eight protected keys, the value the mapping had before the
\* merge if it had the key; a margin key it lacked holds "0mm", and a missing
\* page-width, page-height, dpi or zoom is present with no value; no margin or
\* page key holds an HTML-supplied value.
C1_KeepsCallerValueOrDefault ==
    ThermalCall =>
        /\ \A k \in ProtectedKeys :
              /\ k \in DOMAIN ret
              /\ ret[k] = IF k \in DOMAIN arg THEN arg[k]
                          ELSE IF k \in MarginKeys THEN <<"0", "m", "m">>
                          ELSE None
        /\ NoGeometryFromHtml

\* a thermal call whose HTML names a margin, a page dimension and the page
\* size, made with a mapping that has the first margin and lacks another
C1_Witness ==
    /\ ThermalCall
    /\ {"margin-top", "page-width", "page-size", "Page-Height"} \subseteq DOMAIN html
    /\ "margin-top" \in DOMAIN arg /\ ret["margin-top"] = arg["margin-top"]
    /\ "margin-left" \notin DOMAIN arg /\ ret["margin-left"] = <<"0", "m", "m">>
    /\ "page-size" \notin DOMAIN ret

\* C3: a second prepare_options call with the same HTML and the same caller
\* mapping returns the options the first call returned.
C3_Idempotent == runs = 2 => ret = first

\* C8: the returned options always hold encoding "UTF-8" and the valueless
\* flags print-media-type, background, images and quiet; for an input that
\* is not thermal each margin key is present, and holds "15mm" when neither
\* the caller nor the HTML gave that side a value.
C8_Injected ==
    runs >= 1 =>
        /\ "encoding" \in DOMAIN ret /\ ret["encoding"] = <<"U", "T", "F", "-", "8">>
        /\ \A k \in {"print-media-type", "background", "images", "quiet"} :
              k \in DOMAIN ret /\ ret[k] = None
        /\ ~ThermalCall =>
              \A k \in MarginKeys :
                 /\ k \in DOMAIN ret
                 /\ (~Truthy(Get(arg, k, None)) /\ k \notin DOMAIN html)
                       => ret[k] = <<"1", "5", "m", "m">>

\* a call that is not thermal, whose mapping brought another encoding, an
\* empty top margin and a left margin, and whose HTML names no margin
C8_Witness ==
    /\ runs = 1 /\ ~ThermalCall
    /\ "encoding" \in DOMAIN arg /\ arg["encoding"] # ret["encoding"]
    /\ "margin-top" \in DOMAIN arg /\ arg["margin-top"] = <<>>
    /\ "margin-top" \notin DOMAIN html
    /\ ret["margin-top"] = <<"1", "5", "m", "m">>
    /\ "margin-left" \in DOMAIN arg /\ ret["margin-left"] = arg["margin-left"]

\* C5: the thermal marker is never in the options handed to the engine.
C5_MarkerStripped ==
    pc = "done" => "_is_thermal" \notin DOMAIN engineOptions

\* a get_pdf call whose mapping carried the marker and whose engine ran
C5_Witness ==
    /\ pc = "done"
    /\ ThermalCall
    /\ result.status = "returned"
    /\ "disable-smart-shrinking" \in DOMAIN engineOptions

\* the rendering step raised an OSError with a recognized content-error message
ContentErrorRaised ==
    /\ pc = "done"
    /\ render.raised_by # "none"
    /\ \E error \in {"ContentNotFoundError", "ContentOperationNotPermittedError",
                     "UnknownContentError", "RemoteHostClosedError"} :
          \E i \in 1..Len(render.message) : render.message[i] = error

\* C2: when the rendering step raises a recognized content error after N
\* pages of real bytes were produced, get_pdf raises nothing and the output
\* (fresh document or accumulator) holds exactly those N pages, each once.
C2_PartialRecovery ==
    (ContentErrorRaised /\ Len(render.pages) > 0) =>
        /\ result.status = "returned"
        /\ result.pages = render.before.pages \o render.pages

\* an error-free get_pdf call: the output holds the engine's pages, each once
C2_CleanRunAssembles ==
    (pc = "done" /\ render.raised_by = "none") =>
        /\ result.status = "returned"
        /\ result.pages = render.before.pages \o render.pages

SetMax(S) == CHOOSE x \in S : \A y \in S : y <= x

\* the bottoms of the content of a page: of each block's box and, for a
\* block without one, of its lines' boxes
ContentBottoms(page) ==
    UNION {IF page.blocks[i].bbox # -1 THEN {page.blocks[i].bbox}
           ELSE IF page.blocks[i].has_lines
                THEN {page.blocks[i].lines[j] : j \in 1..Len(page.blocks[i].lines)} \ {-1}
                ELSE {} :
           i \in 1..Len(page.blocks)}

DeepestBottom(page) == SetMax(ContentBottoms(page) \cup {0})

Rewritten(i) == cropped.pages[i].cropbox # pdf[i].cropbox

CropRan == pc = "done" /\ ~cropped.failed

C9_FailureTransparent ==
    (pc = "done" /\ cropped.failed) =>
        /\ ~cropped.raised
        /\ cropped.pages = pdf

\* a failure that strikes after a page's crop boundary was rewritten
C9_Witness ==
    /\ pc = "done" /\ cropped.failed
    /\ cropped.logged = "PDF cropping failed"
    /\ cropped.done >= 1
    /\ pdf[1].blocks # <<>>
    /\ pdf[1].rect.y1 - DeepestBottom(pdf[1]) > 35
    /\ DeepestBottom(pdf[1]) > 0

====
